---- MODULE Spec2Model ----
(***************************************************************************)
(* Model of crates/execution/src/lib.rs: the OrderBook top-of-book holder  *)
(* (symbol, bid, ask, bid_size, ask_size), its constructor, its single     *)
(* mutating method update and its read methods get_mid, get_spread,        *)
(* get_imbalance, symbol, bid, ask.                                        *)
(*                                                                         *)
(* Numbers.  i64 is modelled as a two's-complement integer of IntBits bits *)
(* and f64 as a binary floating-point number with MantBits significant     *)
(* bits, rounded to nearest, ties to even.  IntBits > MantBits + 2, as     *)
(* 64 > 53 + 2, so that large integers are not exactly representable and   *)
(* neighbouring floats near MaxInt are more than 2 apart.                  *)
(* A finite float is [k |-> "fin", m, e], the dyadic rational m * 2^e in   *)
(* lowest terms (m odd, or m = 0 and e = 0).  The two IEEE zeros compare   *)
(* equal and are one value here.  The exponent is unbounded: the prices    *)
(* of the model stay far from the exponent limits of f64.                  *)
(***************************************************************************)
EXTENDS Integers, Sequences, FiniteSets, TLC

IntBits == 12
MantBits == 9

RECURSIVE Pow2(_)
Pow2(n) == IF n = 0 THEN 1 ELSE 2 * Pow2(n - 1)

MinInt == -Pow2(IntBits - 1)
MaxInt == Pow2(IntBits - 1) - 1

Abs(x) == IF x < 0 THEN -x ELSE x

(* ---------------------------- f64 ------------------------------------- *)

Fin(m, e) == [k |-> "fin", m |-> m, e |-> e]
NaN == [k |-> "nan", m |-> 0, e |-> 0]
Inf(s) == [k |-> "inf", m |-> s, e |-> 0]

RECURSIVE Norm(_, _)
Norm(m, e) ==
    IF m = 0 THEN Fin(0, 0)
    ELSE IF m % 2 = 0 THEN Norm(m \div 2, e + 1)
    ELSE Fin(m, e)

FZero == Fin(0, 0)
FTwo == Fin(1, 1)

(* a / d scaled by powers of two until MantBits bits stand before the point *)
RECURSIVE Scale(_, _, _)
Scale(a, d, e) ==
    IF a >= d * Pow2(MantBits) THEN Scale(a, 2 * d, e + 1)
    ELSE IF a < d * Pow2(MantBits - 1) THEN Scale(2 * a, d, e - 1)
    ELSE <<a, d, e>>

(* the float nearest to the rational (n / d) * 2^e0, d > 0, ties to even *)
Round(n, d, e0) ==
    IF n = 0 THEN FZero
    ELSE LET s == IF n < 0 THEN -1 ELSE 1
             t == Scale(Abs(n), d, 0)
             q == t[1] \div t[2]
             r == t[1] % t[2]
             up == \/ 2 * r > t[2]
                   \/ 2 * r = t[2] /\ q % 2 = 1
         IN Norm(s * (IF up THEN q + 1 ELSE q), t[3] + e0)

Min(a, b) == IF a <= b THEN a ELSE b

Sign(x) == IF x < 0 THEN -1 ELSE IF x > 0 THEN 1 ELSE 0

FNeg(x) == [x EXCEPT !.m = -x.m]

FAdd(x, y) ==
    IF x.k = "nan" \/ y.k = "nan" THEN NaN
    ELSE IF x.k = "inf" /\ y.k = "inf" THEN (IF x.m = y.m THEN x ELSE NaN)
    ELSE IF x.k = "inf" THEN x
    ELSE IF y.k = "inf" THEN y
    ELSE LET e == Min(x.e, y.e)
         IN Round(x.m * Pow2(x.e - e) + y.m * Pow2(y.e - e), 1, e)

FSub(x, y) == FAdd(x, FNeg(y))

FDiv(x, y) ==
    IF x.k = "nan" \/ y.k = "nan" THEN NaN
    ELSE IF x.k = "inf" /\ y.k = "inf" THEN NaN
    ELSE IF x.k = "inf" THEN Inf(x.m * (IF y.m < 0 THEN -1 ELSE 1))
    ELSE IF y.k = "inf" THEN FZero
    ELSE IF y.m = 0 THEN (IF x.m = 0 THEN NaN ELSE Inf(Sign(x.m)))
    ELSE Round(x.m * Sign(y.m), Abs(y.m), x.e - y.e)

(* the == of f64: false as soon as one side is NaN *)
FEq(x, y) == x.k # "nan" /\ y.k # "nan" /\ x = y

(* ---------------------------- i64 ------------------------------------- *)

Wrap(x) == ((x - MinInt) % Pow2(IntBits)) + MinInt

(* self.bid_size + self.ask_size: with overflow checks (the debug profile) *)
(* an out-of-range sum panics, without them (the release profile) it wraps *)
i64_add(a, b, checks) ==
    IF a + b >= MinInt /\ a + b <= MaxInt THEN [panic |-> FALSE, v |-> a + b]
    ELSE IF checks THEN [panic |-> TRUE, v |-> 0]
    ELSE [panic |-> FALSE, v |-> Wrap(a + b)]

i64_as_f64(n) == Round(n, 1, 0)

(* ------------------------- return values ------------------------------ *)

RetF(x) == [kind |-> "f64", f |-> x, s |-> ""]
RetS(x) == [kind |-> "str", f |-> FZero, s |-> x]
RetUnit == [kind |-> "unit", f |-> FZero, s |-> ""]
RetPanic == [kind |-> "panic", f |-> FZero, s |-> ""]

(* --------------------------- OrderBook -------------------------------- *)

(* the best ask starts at +infinity instead of 0.0 *)
new_ask_inf(sym) ==
    [symbol |-> sym, bid |-> FZero, ask |-> Inf(1), bid_size |-> 0, ask_size |-> 0]

new(sym) ==
    [symbol |-> sym, bid |-> FZero, ask |-> FZero, bid_size |-> 0, ask_size |-> 0]

(* negative sizes are clamped to zero *)
update_clamped(self, b, a, bs, as) ==
    [self EXCEPT !.bid = b, !.ask = a,
                 !.bid_size = IF bs < 0 THEN 0 ELSE bs,
                 !.ask_size = IF as < 0 THEN 0 ELSE as]

(* the whole object is rebuilt and the symbol is lost *)
update_resets_symbol(self, b, a, bs, as) ==
    [symbol |-> "", bid |-> b, ask |-> a, bid_size |-> bs, ask_size |-> as]

(* bid_size is assigned from the object's own ask_size *)
update_shifted(self, b, a, bs, as) ==
    [self EXCEPT !.bid = b, !.ask = a, !.bid_size = self.ask_size, !.ask_size = as]

update(self, b, a, bs, as) ==
    [self EXCEPT !.bid = b, !.ask = a, !.bid_size = bs, !.ask_size = as]

get_mid(self) == RetF(FDiv(FAdd(self.bid, self.ask), FTwo))

get_spread(self) == RetF(FSub(self.ask, self.bid))

(* the guard is written total <= 0.0 *)
total_not_positive(total) == total.k = "fin" /\ total.m <= 0

total_is_zero(total) == FEq(total, FZero)

(* the early return of get_imbalance is taken *)
short_circuits(self, checks) ==
    LET sum == i64_add(self.bid_size, self.ask_size, checks)
    IN ~sum.panic /\ total_is_zero(i64_as_f64(sum.v))

(* the division is made without the guard *)
get_imbalance_unguarded(self, checks) ==
    LET sum == i64_add(self.bid_size, self.ask_size, checks)
    IN IF sum.panic THEN RetPanic
       ELSE RetF(FDiv(FSub(i64_as_f64(self.bid_size),
                           i64_as_f64(self.ask_size)), i64_as_f64(sum.v)))

get_imbalance(self, checks) ==
    LET sum == i64_add(self.bid_size, self.ask_size, checks)
    IN IF sum.panic THEN RetPanic
       ELSE LET total == i64_as_f64(sum.v)
            IN IF total_is_zero(total) THEN RetF(FZero)
               ELSE RetF(FDiv(FSub(i64_as_f64(self.bid_size),
                                   i64_as_f64(self.ask_size)), total))

symbol(self) == RetS(self.symbol)

bid(self) == RetF(self.bid)

ask(self) == RetF(self.ask)

(* --------------------------- inputs ----------------------------------- *)

Symbols == {"", "AAPL"}

(* 0.0, 100.0, 100.5 *)
Prices == {FZero, Fin(25, 2), Fin(201, -1)}

Sizes == {MinInt, -1, 0, 1, 100, 300, 500, 2000, MaxInt - 5, MaxInt}

NoArgs == [valid |-> FALSE, bid |-> FZero, ask |-> FZero, bid_size |-> 0, ask_size |-> 0]

(* --------------------------- state ------------------------------------ *)

(* book: the OrderBook; overflow_checks: the build profile; sym_arg: the   *)
(* constructor's argument; last: the arguments of the latest update; op,  *)
(* ret: the latest call and what it returned; same: the latest call is an *)
(* update that directly follows an update with the same arguments         *)
VARIABLES book, overflow_checks, sym_arg, last, op, ret, same

vars == <<book, overflow_checks, sym_arg, last, op, ret, same>>

Init ==
    /\ overflow_checks \in BOOLEAN
    /\ sym_arg \in Symbols
    /\ book = new(sym_arg)
    /\ last = NoArgs
    /\ op = "new"
    /\ ret = RetUnit
    /\ same = FALSE

Update ==
    \E b \in Prices, a \in Prices, bs \in Sizes, as \in Sizes :
        /\ book' = update(book, b, a, bs, as)
        /\ last' = [valid |-> TRUE, bid |-> b, ask |-> a, bid_size |-> bs, ask_size |-> as]
        /\ same' = (op = "update" /\ last' = last)
        /\ op' = "update"
        /\ ret' = RetUnit
        /\ UNCHANGED <<overflow_checks, sym_arg>>

GetMid ==
    /\ ret' = get_mid(book)
    /\ op' = "get_mid"
    /\ same' = FALSE
    /\ UNCHANGED <<book, overflow_checks, sym_arg, last>>

GetSpread ==
    /\ ret' = get_spread(book)
    /\ op' = "get_spread"
    /\ same' = FALSE
    /\ UNCHANGED <<book, overflow_checks, sym_arg, last>>

(* the read clears the sizes it has used *)
GetImbalanceConsuming ==
    /\ ret' = get_imbalance(book, overflow_checks)
    /\ op' = "get_imbalance"
    /\ same' = FALSE
    /\ book' = [book EXCEPT !.bid_size = 0, !.ask_size = 0]
    /\ UNCHANGED <<overflow_checks, sym_arg, last>>

GetImbalance ==
    /\ ret' = get_imbalance(book, overflow_checks)
    /\ op' = "get_imbalance"
    /\ same' = FALSE
    /\ UNCHANGED <<book, overflow_checks, sym_arg, last>>

GetSymbol ==
    /\ ret' = symbol(book)
    /\ op' = "symbol"
    /\ same' = FALSE
    /\ UNCHANGED <<book, overflow_checks, sym_arg, last>>

GetBid ==
    /\ ret' = bid(book)
    /\ op' = "bid"
    /\ same' = FALSE
    /\ UNCHANGED <<book, overflow_checks, sym_arg, last>>

GetAsk ==
    /\ ret' = ask(book)
    /\ op' = "ask"
    /\ same' = FALSE
    /\ UNCHANGED <<book, overflow_checks, sym_arg, last>>

Next ==
    \/ Update
    \/ GetMid
    \/ GetSpread
    \/ GetImbalance
    \/ GetSymbol
    \/ GetBid
    \/ GetAsk

Spec == Init /\ [][Next]_vars

ReadOps == {"get_mid", "get_spread", "get_imbalance", "symbol", "bid", "ask"}

TypeOK ==
    /\ book.symbol \in Symbols
    /\ book.bid_size \in MinInt..MaxInt
    /\ book.ask_size \in MinInt..MaxInt
    /\ op \in ReadOps \cup {"new", "update"}
    /\ ret.kind \in {"f64", "str", "unit", "panic"}

(* ---------------------------- claims ---------------------------------- *)

(* C1: whenever bid_size + ask_size = 0, get_imbalance returns exactly 0.0: *)
(* no panic, no NaN, no infinity from a division by zero.                  *)
C1_ZeroLiquidity ==
    (op = "get_imbalance" /\ book.bid_size + book.ask_size = 0)
        => ret = RetF(FZero)

C1_Witness ==
    /\ op = "get_imbalance"
    /\ last.valid
    /\ book.bid_size = 1
    /\ book.ask_size = -1
    /\ ret = RetF(FZero)

(* C2: after at least one update the four fields are the arguments of the  *)
(* latest update, unvalidated and unclamped, and bid, ask, get_mid and     *)
(* get_spread return bp, ap, (bp + ap) / 2.0 and ap - bp of that one call. *)
C2_LastWriteWins ==
    last.valid =>
        /\ book.bid = last.bid
        /\ book.ask = last.ask
        /\ book.bid_size = last.bid_size
        /\ book.ask_size = last.ask_size
        /\ op = "bid" => ret = RetF(last.bid)
        /\ op = "ask" => ret = RetF(last.ask)
        /\ op = "get_mid" => ret = RetF(FDiv(FAdd(last.bid, last.ask), FTwo))
        /\ op = "get_spread" => ret = RetF(FSub(last.ask, last.bid))

(* a crossed quote with a negative size, read back through get_spread *)
C2_Witness ==
    /\ last.valid
    /\ op = "get_spread"
    /\ last.bid = Fin(201, -1)
    /\ last.ask = Fin(25, 2)
    /\ last.bid_size < 0
    /\ ret = RetF(Fin(-1, -1))

(* C3: every operation completes with a value: no call ends in a panic.    *)
C3_Total == ret.kind # "panic"

(* |x| <= 1 for a finite x *)
InUnit(x) ==
    /\ x.k = "fin"
    /\ IF x.e >= 0 THEN Abs(x.m) * Pow2(x.e) <= 1 ELSE Abs(x.m) <= Pow2(-x.e)

(* C4: with both sizes non-negative get_imbalance returns a value of       *)
(* [-1, 1], which is -1 exactly when bid_size = 0 and ask_size > 0, and    *)
(* is (bid_size - ask_size) / (bid_size + ask_size) when the total is      *)
(* positive.                                                               *)
C4_BoundedImbalance ==
    (op = "get_imbalance" /\ book.bid_size >= 0 /\ book.ask_size >= 0) =>
        /\ ret.kind = "f64"
        /\ InUnit(ret.f)
        /\ ret.f = Fin(-1, 0) <=> (book.bid_size = 0 /\ book.ask_size > 0)
        /\ book.bid_size + book.ask_size > 0 =>
               ret.f = FDiv(FSub(i64_as_f64(book.bid_size), i64_as_f64(book.ask_size)),
                            i64_as_f64(book.bid_size + book.ask_size))

(* C5: for sizes of non-zero sum, get_imbalance after update(bp, ap, bs,   *)
(* as) is the negation of get_imbalance after update(bp, ap, as, bs).      *)
C5_Antisymmetric ==
    (last.valid /\ book.bid_size + book.ask_size # 0) =>
        LET r1 == get_imbalance(book, overflow_checks)
            r2 == get_imbalance(update(book, book.bid, book.ask,
                                       book.ask_size, book.bid_size),
                                overflow_checks)
        IN /\ r1.kind = "f64"
           /\ r2.kind = "f64"
           /\ FEq(r1.f, FNeg(r2.f))

(* C6: the symbol is the constructor's argument in every state, and the    *)
(* symbol getter returns it, whatever updates and reads came before.       *)
C6_SymbolImmutable ==
    /\ book.symbol = sym_arg
    /\ op = "symbol" => ret = RetS(sym_arg)

C6_Witness ==
    /\ op = "symbol"
    /\ last.valid
    /\ last.bid_size # 0
    /\ sym_arg = "AAPL"
    /\ ret = RetS("AAPL")

(* C7: an update that directly follows an update with the same arguments   *)
(* leaves the stored state, and so every read, as the first one left it.   *)
C7_UpdateIdempotent ==
    [][(op = "update" /\ op' = "update" /\ last' = last) =>
          /\ book' = book
          /\ get_mid(book') = get_mid(book)
          /\ get_spread(book') = get_spread(book)
          /\ get_imbalance(book', overflow_checks') = get_imbalance(book, overflow_checks)
          /\ bid(book') = bid(book)
          /\ ask(book') = ask(book)
          /\ symbol(book') = symbol(book)]_vars

C7_Witness ==
    /\ same
    /\ op = "update"
    /\ last.bid_size = 300
    /\ last.ask_size = 100

(* C8: before any update all four numeric fields are zero and get_mid,     *)
(* get_spread and get_imbalance return 0.0, for any symbol.                *)
C8_FreshBook ==
    ~last.valid =>
        /\ book.bid = FZero
        /\ book.ask = FZero
        /\ book.bid_size = 0
        /\ book.ask_size = 0
        /\ op \in {"get_mid", "get_spread", "get_imbalance"} => ret = RetF(FZero)

C8_Witness ==
    /\ ~last.valid
    /\ op = "get_spread"
    /\ sym_arg = ""
    /\ ret = RetF(FZero)

(* C9: a read leaves the five fields as they are, and a read repeated      *)
(* directly after itself returns what it returned before.                  *)
C9_ReadsPure ==
    [][/\ op' \in ReadOps => book' = book
       /\ (op \in ReadOps /\ op' = op) => ret' = ret]_vars

C9_Witness ==
    /\ op = "get_imbalance"
    /\ last.valid
    /\ book.bid_size = 300
    /\ book.ask_size = 100
    /\ ret = RetF(Fin(1, -1))

(* C10, as claimed: whenever bid_size + ask_size is zero, the numerator    *)
(* bid_size - ask_size is zero too.                                        *)
C10_NumeratorZero ==
    book.bid_size + book.ask_size = 0 => book.bid_size - book.ask_size = 0

(* C10, amended: whenever both sizes are non-negative and get_imbalance    *)
(* takes its early return, the numerator bid_size - ask_size is zero.      *)
C10_NonNegativeNumeratorZero ==
    (/\ op = "get_imbalance"
     /\ book.bid_size >= 0
     /\ book.ask_size >= 0
     /\ short_circuits(book, overflow_checks))
        => book.bid_size - book.ask_size = 0

C10_Witness ==
    /\ op = "get_imbalance"
    /\ last.valid
    /\ last.bid # FZero
    /\ book.bid_size = 0
    /\ book.ask_size = 0
    /\ short_circuits(book, overflow_checks)

====
